---------------------------- MODULE Spec2Model ----------------------------
(***************************************************************************)
(* Model of the dividend-portfolio dashboard (src/App.tsx and friends).    *)
(*                                                                         *)
(* Numbers.  The program computes with JavaScript numbers.  The model      *)
(* computes with decimal fixed-point numbers: a value v is the integer     *)
(* v * SCALE, and every product and quotient is rounded to the nearest     *)
(* representable value, as every floating-point operation is.  Sums are    *)
(* exact.  Math.round and toFixed(2) are modelled by what they do (round   *)
(* half up to an integer; round half away from zero to two decimals).      *)
(***************************************************************************)
EXTENDS Integers, Sequences, FiniteSets, TLC

(***************************************************************************)
(* Bounds of the model.                                                    *)
(***************************************************************************)
MaxHoldings == 2
MaxRuns == 3

(***************************************************************************)
(* Fixed-point arithmetic.                                                 *)
(***************************************************************************)
SCALE == 10 * 10 * 10

Fx(n) == n * SCALE

Abs(a) == IF a < 0 THEN -a ELSE a

Sgn(a) == IF a < 0 THEN -1 ELSE IF a > 0 THEN 1 ELSE 0

\* a * b, rounded to the nearest representable value
FxMul(a, b) ==
  LET x  == Abs(a)
      y  == Abs(b)
      xh == x \div SCALE
      xl == x % SCALE
      yh == y \div SCALE
      yl == y % SCALE
      mag == xh * yh * SCALE + xh * yl + xl * yh
               + (xl * yl + SCALE \div 2) \div SCALE
  IN  Sgn(a) * Sgn(b) * mag

RECURSIVE LongDiv(_, _, _)
\* the decimal digits of r / y (r < y) down to the unit u, the last one rounded
LongDiv(r, y, u) ==
  IF u = 1
    THEN IF 2 * r >= y THEN 1 ELSE 0
    ELSE ((r * 10) \div y) * (u \div 10) + LongDiv((r * 10) % y, y, u \div 10)

\* a / b for b # 0, rounded to the nearest representable value
FxDiv(a, b) ==
  LET x == Abs(a)
      y == Abs(b)
  IN  Sgn(a) * Sgn(b) * ((x \div y) * SCALE + LongDiv(x % y, y, SCALE))

\* Math.floor in place of Math.round
MathFloor(a) == a \div SCALE

\* Math.round: the nearest integer, halves towards +Infinity
MathRound(a) == (a + SCALE \div 2) \div SCALE

\* Number(a.toFixed(2)): two decimals, halves away from zero
ToFixed2(a) ==
  LET unit == SCALE \div 100
  IN  Sgn(a) * ((Abs(a) + unit \div 2) \div unit) * unit

(***************************************************************************)
(* Inputs: the holdings and the metadata cache a render can see.           *)
(***************************************************************************)
Tickers == {"X", "Y"}

\* quantities the form can submit: parseFloat of a non-empty number input
WholeQuantities == {Fx(100), -Fx(100)}
FractionalQuantities == {SCALE \div 2}

\* metadata the fetch can return: currentPrice, annualDividend, growthRate
Metadata ==
  { [currentPrice |-> Fx(10), annualDividend |-> Fx(1), growthRate |-> Fx(5)],
    [currentPrice |-> Fx(1),  annualDividend |-> Fx(2), growthRate |-> -Fx(200)],
    [currentPrice |-> 0,      annualDividend |-> Fx(1), growthRate |-> 0] }

StockHolding(i, t, q) ==
  [id |-> i, ticker |-> t, quantity |-> q, purchaseDate |-> "2024-01-01"]

DividendData(t, d) ==
  [ticker |-> t, currentPrice |-> d.currentPrice,
   annualDividend |-> d.annualDividend, growthRate |-> d.growthRate]

\* up to MaxHoldings holdings of whole quantities, or one fractional holding
HoldingLists ==
  UNION { { [i \in 1..n |-> StockHolding(i, f[i][1], f[i][2])] :
              f \in [1..n -> Tickers \X WholeQuantities] } :
            n \in 0..MaxHoldings }
  \cup { << StockHolding(1, t, q) >> : t \in Tickers, q \in FractionalQuantities }

Caches ==
  UNION { { [t \in D |-> DividendData(t, f[t])] : f \in [D -> Metadata] } :
            D \in SUBSET Tickers }

(***************************************************************************)
(* Aggregator: portfolioSummary (src/App.tsx 133-145).                     *)
(***************************************************************************)
\* SummaryStep with totalShares counted inside the if (data) branch
SummaryStepSharesIfData(acc, h, m) ==
  LET hasData == h.ticker \in DOMAIN m
  IN  [totalValue   |-> acc.totalValue +
                          (IF hasData
                             THEN FxMul(h.quantity, m[h.ticker].currentPrice)
                             ELSE 0),
       annualIncome |-> acc.annualIncome +
                          (IF hasData
                             THEN FxMul(h.quantity, m[h.ticker].annualDividend)
                             ELSE 0),
       totalShares  |-> acc.totalShares + (IF hasData THEN h.quantity ELSE 0)]

\* SummaryStep with the annual dividend valued in place of the price
SummaryStepDividendAsPrice(acc, h, m) ==
  LET hasData == h.ticker \in DOMAIN m
  IN  [totalValue   |-> acc.totalValue +
                          (IF hasData
                             THEN FxMul(h.quantity, m[h.ticker].annualDividend)
                             ELSE 0),
       annualIncome |-> acc.annualIncome +
                          (IF hasData
                             THEN FxMul(h.quantity, m[h.ticker].annualDividend)
                             ELSE 0),
       totalShares  |-> acc.totalShares + h.quantity]

\* the body of holdings.forEach: one holding added to the running totals
SummaryStep(acc, h, m) ==
  LET hasData == h.ticker \in DOMAIN m
  IN  [totalValue   |-> acc.totalValue +
                          (IF hasData
                             THEN FxMul(h.quantity, m[h.ticker].currentPrice)
                             ELSE 0),
       annualIncome |-> acc.annualIncome +
                          (IF hasData
                             THEN FxMul(h.quantity, m[h.ticker].annualDividend)
                             ELSE 0),
       totalShares  |-> acc.totalShares + h.quantity]

RECURSIVE SummaryFold(_, _, _, _)
\* holdings.forEach from index i on
SummaryFold(hs, m, i, acc) ==
  IF i > Len(hs) THEN acc
  ELSE SummaryFold(hs, m, i + 1, SummaryStep(acc, hs[i], m))

\* WeightedYield guarding against a zero value only
WeightedYieldNonZero(totalValue, annualIncome) ==
  IF totalValue # 0 THEN FxMul(FxDiv(annualIncome, totalValue), Fx(100)) ELSE 0

WeightedYield(totalValue, annualIncome) ==
  IF totalValue > 0 THEN FxMul(FxDiv(annualIncome, totalValue), Fx(100)) ELSE 0

ComputeSummary(hs, m) ==
  LET t == SummaryFold(hs, m, 1,
                       [totalValue |-> 0, annualIncome |-> 0, totalShares |-> 0])
      weightedYield == WeightedYield(t.totalValue, t.annualIncome)
  IN  [totalValue   |-> t.totalValue,
       annualIncome |-> t.annualIncome,
       averageYield |-> weightedYield,
       yieldOnCost  |-> weightedYield,
       totalShares  |-> t.totalShares]

(***************************************************************************)
(* Projection Engine: projectionData (src/App.tsx 147-173).                *)
(***************************************************************************)
MaxYear == 20
BaseGrowth == 1050
BearGrowth == 1010
BullGrowth == 1090
DefaultGrowth == 70

\* x || 1
OrOne(x) == IF x # 0 THEN x ELSE 1 * SCALE

InitialInvestment(totalValue) == OrOne(totalValue)

RECURSIVE SumGrowthRate(_, _)
\* stocks.reduce((acc, curr) => acc + (curr.growthRate || 0), 0)
SumGrowthRate(m, D) ==
  IF D = {} THEN 0
  ELSE LET t == CHOOSE t \in D : TRUE
       IN  m[t].growthRate + SumGrowthRate(m, D \ {t})

\* AvgGrowth without the division by stocks.length
AvgGrowthNoMean(m) ==
  LET n == Cardinality(DOMAIN m)
  IN  IF n > 0
        THEN FxDiv(SumGrowthRate(m, DOMAIN m), Fx(100))
        ELSE DefaultGrowth

AvgGrowth(m) ==
  LET n == Cardinality(DOMAIN m)
  IN  IF n > 0
        THEN FxDiv(FxDiv(SumGrowthRate(m, DOMAIN m), Fx(n)), Fx(100))
        ELSE DefaultGrowth

\* InitialAvgPrice dividing by Math.max(totalShares, 1)
InitialAvgPriceMax(s) ==
  FxDiv(s.totalValue,
        IF s.totalShares > 1 * SCALE THEN s.totalShares ELSE 1 * SCALE)

InitialAvgPrice(s) == FxDiv(s.totalValue, OrOne(s.totalShares))

InitialDivPerShare(s) == FxDiv(s.annualIncome, OrOne(s.totalShares))

\* the loop stopping one year early
LoopCondExclusive(y) == y < MaxYear

LoopCond(y) == y <= MaxYear

Income(sh, dps) == FxMul(sh, dps)

\* ProjectionPoint with the bear and bull price tracks exchanged
ProjectionPointSwapped(y, sh, pBase, pBear, pBull, income, cumDiv, initInv) ==
  [year                |-> y,
   balance             |-> MathRound(FxMul(sh, pBase)),
   bearBalance         |-> MathRound(FxMul(sh, pBull)),
   bullBalance         |-> MathRound(FxMul(sh, pBear)),
   annualIncome        |-> MathRound(income),
   cumulativeDividends |-> MathRound(cumDiv),
   yoc                 |-> FxMul(FxDiv(income, initInv), Fx(100)),
   shares              |-> ToFixed2(sh)]

\* ProjectionPoint built after this year's income was added to the total
ProjectionPointAfterAdd(y, sh, pBase, pBear, pBull, income, cumDiv, initInv) ==
  [year                |-> y,
   balance             |-> MathRound(FxMul(sh, pBase)),
   bearBalance         |-> MathRound(FxMul(sh, pBear)),
   bullBalance         |-> MathRound(FxMul(sh, pBull)),
   annualIncome        |-> MathRound(income),
   cumulativeDividends |-> MathRound(cumDiv + income),
   yoc                 |-> FxMul(FxDiv(income, initInv), Fx(100)),
   shares              |-> ToFixed2(sh)]

ProjectionPoint(y, sh, pBase, pBear, pBull, income, cumDiv, initInv) ==
  [year                |-> y,
   balance             |-> MathRound(FxMul(sh, pBase)),
   bearBalance         |-> MathRound(FxMul(sh, pBear)),
   bullBalance         |-> MathRound(FxMul(sh, pBull)),
   annualIncome        |-> MathRound(income),
   cumulativeDividends |-> MathRound(cumDiv),
   yoc                 |-> FxMul(FxDiv(income, initInv), Fx(100)),
   shares              |-> ToFixed2(sh)]

\* cumulativeDiv = income in place of cumulativeDiv += income
AddIncomeAssign(cumDiv, income) == income

AddIncome(cumDiv, income) == cumDiv + income

\* Reinvest carrying the emitted (rounded) shares and income forward
ReinvestRounded(sh, income, pBase) ==
  ToFixed2(sh) + (IF pBase > 0 THEN FxDiv(Fx(MathRound(income)), pBase) ELSE 0)

Reinvest(sh, income, pBase) ==
  sh + (IF pBase > 0 THEN FxDiv(income, pBase) ELSE 0)

GrowDividend(dps, g) == FxMul(dps, SCALE + g)

(***************************************************************************)
(* State.  holdings and stockInfo are the component's state; the other     *)
(* variables are the two memoised computations of one render: the summary, *)
(* then the locals of the projection loop.  incomes and sharesAt record,   *)
(* per year, the loop's unrounded income and start-of-year share count.    *)
(* memo records every completed projection with the inputs it ran on.      *)
(***************************************************************************)
VARIABLES holdings, stockInfo, removed, portfolioSummary, projectionData,
          pc, runs, memo,
          points, year, shares, divPerShare, priceBase, priceBear, priceBull,
          cumulativeDiv, initialInvestment, avgGrowth, initialAvgPrice,
          incomes, sharesAt

\* the rest of the component's state that the form and addHolding touch,
\* the addHolding call in progress with its position, and the id the remove
\* button last passed to the filter (0 before any removal and after a submit)
VARIABLES isLoading, error, pending, lastRemoved

form == <<isLoading, error, pending, lastRemoved>>

\* the service function's input and output: the grounding chunks of a
\* response, the sources list of the record built from it, and which
\* fetchStockDividendData built it
VARIABLES chunks, sources, fetched

fetchVars == <<chunks, sources, fetched>>

\* one withRetry(fn) call chain: the parameters of the current call, the
\* number of times fn was invoked, the messages of the errors fn threw, the
\* delays waited, where the chain stands and what it returned
VARIABLES retries, delay, calls, errors, waits, outcome, result

retryVars == <<retries, delay, calls, errors, waits, outcome, result>>

services == <<fetchVars, retryVars>>

\* the browser side of a session: localStorage (store) and, during a
\* startup, what it held when the page was opened (previous); the analysis
\* state of the component; the state updates queued by effects for the next render; the
\* position in the mount sequence; whether the build double-invokes mount
\* effects (React.StrictMode in development); whether a holding was added
\* or removed since the last analysis succeeded
VARIABLES store, previous, analysisResult, isAnalyzing, queued, phase, strict,
          changed

session == <<store, previous, analysisResult, isAnalyzing, queued, phase,
             strict, changed>>

inputs == <<holdings, stockInfo, removed>>
locals == <<points, year, shares, divPerShare, priceBase, priceBear,
            priceBull, cumulativeDiv, initialInvestment, avgGrowth,
            initialAvgPrice, incomes, sharesAt>>
vars == <<inputs, form, services, session, portfolioSummary, projectionData,
          pc, runs, memo, locals>>

\* useState<string | null>(null): no error shown
NoError == "null"

\* nothing has been asked of the service functions
FetchIdle ==
  /\ chunks = << >>
  /\ sources = << >>
  /\ fetched = "no"

RetryIdle ==
  /\ retries = 0
  /\ delay = 0
  /\ calls = 0
  /\ errors = << >>
  /\ waits = << >>
  /\ outcome = "idle"
  /\ result = "none"

ServicesIdle == FetchIdle /\ RetryIdle

\* useState<string | null>(null): no analysis shown
NoAnalysis == "null"

\* JSON.stringify of a holding list or of a cache: a text, never empty,
\* that denotes the value.  The values stored here are strings and finite
\* numbers, which the text denotes exactly.
JSONStringify(v) == [json |-> v]

\* JSON.parse of such a text: a fresh object with the value the text denotes
JSONParse(text) == text.json

\* localStorage with none of the three keys set.  present tells whether
\* divi_holdings and divi_stock_info are set (they are written together);
\* divi_analysis is "" when getItem gives null.
NoStore ==
  [present |-> FALSE, holdings |-> JSONStringify(<< >>),
   info |-> JSONStringify(<< >>), analysis |-> ""]

\* no state update is queued
NoUpdates == [holdings |-> << >>, info |-> << >>, analysis |-> << >>]

\* the page is mounted, localStorage is untouched and no analysis was asked
SessionIdle ==
  /\ store = NoStore
  /\ previous = NoStore
  /\ analysisResult = NoAnalysis
  /\ isAnalyzing = FALSE
  /\ queued = NoUpdates
  /\ phase = "idle"
  /\ strict = FALSE
  /\ changed = FALSE

ZeroSummary ==
  [totalValue |-> 0, annualIncome |-> 0, averageYield |-> 0,
   yieldOnCost |-> 0, totalShares |-> 0]

Init ==
  /\ holdings \in HoldingLists
  /\ stockInfo \in Caches
  /\ removed = << >>
  /\ portfolioSummary = ZeroSummary
  /\ projectionData = << >>
  /\ pc = "summary"
  /\ runs = 0
  /\ memo = {}
  /\ points = << >>
  /\ year = 0
  /\ shares = 0
  /\ divPerShare = 0
  /\ priceBase = 0
  /\ priceBear = 0
  /\ priceBull = 0
  /\ cumulativeDiv = 0
  /\ initialInvestment = 0
  /\ avgGrowth = 0
  /\ initialAvgPrice = 0
  /\ incomes = << >>
  /\ sharesAt = << >>
  /\ isLoading = FALSE
  /\ error = NoError
  /\ pending = << >>
  /\ lastRemoved = 0
  /\ ServicesIdle
  /\ SessionIdle

\* useMemo(portfolioSummary): lines 133-145
ComputePortfolioSummary ==
  /\ pc = "summary"
  /\ portfolioSummary' = ComputeSummary(holdings, stockInfo)
  /\ pc' = "seed"
  /\ UNCHANGED <<form, services, session, inputs, projectionData, runs, memo, locals>>

\* SeedProjection with cumulativeDiv kept from the previous run
SeedProjectionStale ==
  /\ pc = "seed"
  /\ points' = << >>
  /\ initialInvestment' = InitialInvestment(portfolioSummary.totalValue)
  /\ avgGrowth' = AvgGrowth(stockInfo)
  /\ initialAvgPrice' = InitialAvgPrice(portfolioSummary)
  /\ shares' = portfolioSummary.totalShares
  /\ divPerShare' = InitialDivPerShare(portfolioSummary)
  /\ priceBase' = InitialAvgPrice(portfolioSummary)
  /\ priceBear' = InitialAvgPrice(portfolioSummary)
  /\ priceBull' = InitialAvgPrice(portfolioSummary)
  /\ cumulativeDiv' = cumulativeDiv
  /\ year' = 0
  /\ incomes' = << >>
  /\ sharesAt' = << >>
  /\ pc' = "loop"
  /\ UNCHANGED <<form, services, session, inputs, portfolioSummary, projectionData, runs, memo>>

\* SeedProjection with the floored divisor taken as the share count
SeedProjectionSharesFloored ==
  /\ pc = "seed"
  /\ points' = << >>
  /\ initialInvestment' = InitialInvestment(portfolioSummary.totalValue)
  /\ avgGrowth' = AvgGrowth(stockInfo)
  /\ initialAvgPrice' = InitialAvgPrice(portfolioSummary)
  /\ shares' = OrOne(portfolioSummary.totalShares)
  /\ divPerShare' = InitialDivPerShare(portfolioSummary)
  /\ priceBase' = InitialAvgPrice(portfolioSummary)
  /\ priceBear' = InitialAvgPrice(portfolioSummary)
  /\ priceBull' = InitialAvgPrice(portfolioSummary)
  /\ cumulativeDiv' = 0
  /\ year' = 0
  /\ incomes' = << >>
  /\ sharesAt' = << >>
  /\ pc' = "loop"
  /\ UNCHANGED <<form, services, session, inputs, portfolioSummary, projectionData, runs, memo>>

\* useMemo(projectionData), up to the loop: lines 148-157
SeedProjection ==
  /\ pc = "seed"
  /\ points' = << >>
  /\ initialInvestment' = InitialInvestment(portfolioSummary.totalValue)
  /\ avgGrowth' = AvgGrowth(stockInfo)
  /\ initialAvgPrice' = InitialAvgPrice(portfolioSummary)
  /\ shares' = portfolioSummary.totalShares
  /\ divPerShare' = InitialDivPerShare(portfolioSummary)
  /\ priceBase' = InitialAvgPrice(portfolioSummary)
  /\ priceBear' = InitialAvgPrice(portfolioSummary)
  /\ priceBull' = InitialAvgPrice(portfolioSummary)
  /\ cumulativeDiv' = 0
  /\ year' = 0
  /\ incomes' = << >>
  /\ sharesAt' = << >>
  /\ pc' = "loop"
  /\ UNCHANGED <<form, services, session, inputs, portfolioSummary, projectionData, runs, memo>>

\* LoopStep reinvesting the income at the bull price
LoopStepReinvestAtBull ==
  /\ pc = "loop"
  /\ LoopCond(year)
  /\ LET income == Income(shares, divPerShare)
     IN  /\ points' = Append(points,
                        ProjectionPoint(year, shares, priceBase, priceBear,
                                        priceBull, income, cumulativeDiv,
                                        initialInvestment))
         /\ incomes' = Append(incomes, income)
         /\ sharesAt' = Append(sharesAt, shares)
         /\ cumulativeDiv' = AddIncome(cumulativeDiv, income)
         /\ shares' = Reinvest(shares, income, priceBull)
  /\ divPerShare' = GrowDividend(divPerShare, avgGrowth)
  /\ priceBase' = FxMul(priceBase, BaseGrowth)
  /\ priceBear' = FxMul(priceBear, BearGrowth)
  /\ priceBull' = FxMul(priceBull, BullGrowth)
  /\ year' = year + 1
  /\ UNCHANGED <<form, services, session, inputs, portfolioSummary, projectionData, pc, runs, memo,
                 initialInvestment, avgGrowth, initialAvgPrice>>

\* one iteration of the for loop: lines 159-171
LoopStep ==
  /\ pc = "loop"
  /\ LoopCond(year)
  /\ LET income == Income(shares, divPerShare)
     IN  /\ points' = Append(points,
                        ProjectionPoint(year, shares, priceBase, priceBear,
                                        priceBull, income, cumulativeDiv,
                                        initialInvestment))
         /\ incomes' = Append(incomes, income)
         /\ sharesAt' = Append(sharesAt, shares)
         /\ cumulativeDiv' = AddIncome(cumulativeDiv, income)
         /\ shares' = Reinvest(shares, income, priceBase)
  /\ divPerShare' = GrowDividend(divPerShare, avgGrowth)
  /\ priceBase' = FxMul(priceBase, BaseGrowth)
  /\ priceBear' = FxMul(priceBear, BearGrowth)
  /\ priceBull' = FxMul(priceBull, BullGrowth)
  /\ year' = year + 1
  /\ UNCHANGED <<form, services, session, inputs, portfolioSummary, projectionData, pc, runs, memo,
                 initialInvestment, avgGrowth, initialAvgPrice>>

\* the loop ends and the points are returned: lines 159, 172
ReturnPoints ==
  /\ pc = "loop"
  /\ ~LoopCond(year)
  /\ projectionData' = points
  /\ memo' = memo \cup {[summary |-> portfolioSummary, cache |-> stockInfo,
                         data |-> points]}
  /\ runs' = runs + 1
  /\ pc' = "done"
  /\ UNCHANGED <<form, services, session, inputs, portfolioSummary, locals>>

MaxId(hs) ==
  IF hs = << >> THEN 0
  ELSE CHOOSE i \in {hs[k].id : k \in 1..Len(hs)} :
         \A k \in 1..Len(hs) : hs[k].id <= i

\* the component renders again with the same state: both computations run
\* again on the same inputs
Rerender ==
  /\ pc = "done"
  /\ runs < MaxRuns
  /\ pc' = "summary"
  /\ UNCHANGED <<form, services, session, inputs, portfolioSummary, projectionData, runs, memo, locals>>

\* RemoveAndRender that also drops the cache entry of the removed ticker
\* once no holding of it is left
RemoveAndRenderDropEntry ==
  /\ pc = "done"
  /\ runs < MaxRuns
  /\ holdings # << >>
  /\ holdings' = SelectSeq(holdings, LAMBDA item : item.id # holdings[1].id)
  /\ stockInfo' =
       [t \in {u \in DOMAIN stockInfo :
                 \/ u # holdings[1].ticker
                 \/ \E k \in 2..Len(holdings) : holdings[k].ticker = u}
          |-> stockInfo[t]]
  /\ removed' = Append(removed, holdings[1])
  /\ pc' = "summary"
  /\ UNCHANGED <<form, services, session, portfolioSummary, projectionData, runs, memo, locals>>

\* the first holding is removed (setHoldings(prev => prev.filter(...)),
\* line 272), and the component renders again
RemoveAndRender ==
  /\ pc = "done"
  /\ runs < MaxRuns
  /\ holdings # << >>
  /\ holdings' = SelectSeq(holdings, LAMBDA item : item.id # holdings[1].id)
  /\ removed' = Append(removed, holdings[1])
  /\ pc' = "summary"
  /\ UNCHANGED <<form, services, session, stockInfo, portfolioSummary, projectionData, runs, memo,
                 locals>>

\* a holding that was removed is entered again (setHoldings(prev =>
\* [...prev, newHolding]), line 89), and the component renders again
AddAgainAndRender ==
  /\ pc = "done"
  /\ runs < MaxRuns
  /\ removed # << >>
  /\ LET h == removed[Len(removed)]
     IN  holdings' = Append(holdings,
                            StockHolding(MaxId(holdings \o removed) + 1,
                                         h.ticker, h.quantity))
  /\ removed' = SubSeq(removed, 1, Len(removed) - 1)
  /\ pc' = "summary"
  /\ UNCHANGED <<form, services, session, stockInfo, portfolioSummary, projectionData, runs, memo,
                 locals>>

Next ==
  \/ ComputePortfolioSummary
  \/ SeedProjection
  \/ LoopStep
  \/ ReturnPoints
  \/ Rerender
  \/ RemoveAndRender
  \/ AddAgainAndRender

Spec == Init /\ [][Next]_vars

(***************************************************************************)
(* The same component started from portfolios of odd lots: share counts    *)
(* that do not divide the portfolio's value, so that totalValue /          *)
(* totalShares and annualIncome / totalShares (src/App.tsx 152-153) are    *)
(* rounded quotients.                                                      *)
(***************************************************************************)
OddQuantities == {Fx(3), Fx(11)}

\* X at 10.00 paying 0.20, Y at 2.50 paying 0.10, both growing 5% a year
OddLotMetadata ==
  [t \in Tickers |->
     IF t = "X"
       THEN [currentPrice   |-> Fx(10),
             annualDividend |-> SCALE \div 5,
             growthRate     |-> Fx(5)]
       ELSE [currentPrice   |-> (5 * SCALE) \div 2,
             annualDividend |-> SCALE \div 10,
             growthRate     |-> Fx(5)]]

OddLots ==
  UNION { { [i \in 1..n |-> StockHolding(i, f[i][1], f[i][2])] :
              f \in [1..n -> Tickers \X OddQuantities] } :
            n \in 1..MaxHoldings }

OddLotCaches ==
  { [t \in D |-> DividendData(t, OddLotMetadata[t])] : D \in SUBSET Tickers }

InitOddLots ==
  /\ holdings \in OddLots
  /\ stockInfo \in OddLotCaches
  /\ removed = << >>
  /\ portfolioSummary = ZeroSummary
  /\ projectionData = << >>
  /\ pc = "summary"
  /\ runs = 0
  /\ memo = {}
  /\ points = << >>
  /\ year = 0
  /\ shares = 0
  /\ divPerShare = 0
  /\ priceBase = 0
  /\ priceBear = 0
  /\ priceBull = 0
  /\ cumulativeDiv = 0
  /\ initialInvestment = 0
  /\ avgGrowth = 0
  /\ initialAvgPrice = 0
  /\ incomes = << >>
  /\ sharesAt = << >>
  /\ isLoading = FALSE
  /\ error = NoError
  /\ pending = << >>
  /\ lastRemoved = 0
  /\ ServicesIdle
  /\ SessionIdle

SpecOddLots == InitOddLots /\ [][Next]_vars

(***************************************************************************)
(* The form and the holding store: StockForm.handleSubmit, addHolding      *)
(* (src/App.tsx 72-106) and the remove button (src/App.tsx 272).           *)
(* addHolding is an async function: it runs synchronously up to the await  *)
(* of the metadata fetch, other events run while it is suspended there,    *)
(* and its continuation runs to the end without interruption.  pending     *)
(* holds the call in progress; awaiting tells whether it is suspended at   *)
(* the await or running.                                                   *)
(***************************************************************************)
MaxStored == 3
IdSpace == 2

\* Math.random().toString(36).substr(2, 9): a draw from the id space, made
\* without looking at the ids already stored
Ids == 1..IdSpace

\* what the user types into the ticker field
RawTickers == {"x", "X", "y"}

\* String.prototype.toUpperCase on the letters used here
ToUpperCase(t) == CASE t = "x" -> "X" [] t = "y" -> "Y" [] OTHER -> t

\* the quantity and date fields as submitted: parseFloat(quantity), date
FormEntries == {<<Fx(100), "2024-01-01">>, <<-Fx(100), "2024-06-30">>}

\* handleSubmit passing the ticker as typed
FormTickerRaw(raw) == raw

\* handleSubmit: onAdd(ticker.toUpperCase(), ...)
FormTicker(raw) == ToUpperCase(raw)

\* stockInfo[ticker], [ticker]: data
CacheKey(ticker) == ticker

\* ticker: ticker.toUpperCase() of the new holding
HoldingTicker(ticker) == ToUpperCase(ticker)

\* the record's ticker taken from a reply that names another stock
FetchedTickerFromReply(ticker) == "X"

\* ticker: ticker.toUpperCase() of the fetched record
FetchedTicker(ticker) == ToUpperCase(ticker)

NewHolding(i, ticker, quantity, date) ==
  [id |-> i, ticker |-> HoldingTicker(ticker), quantity |-> quantity,
   purchaseDate |-> date]

FetchFailed == "Failed to fetch market data. Please verify the ticker symbol."

engine == <<removed, portfolioSummary, projectionData, pc, runs, memo, locals>>

\* the component right after construction: the useState initial values
ComponentFresh ==
  /\ holdings = << >>
  /\ stockInfo = [t \in {} |-> 0]
  /\ isLoading = FALSE
  /\ error = NoError
  /\ pending = << >>
  /\ lastRemoved = 0
  /\ removed = << >>
  /\ portfolioSummary = ZeroSummary
  /\ projectionData = << >>
  /\ pc = "summary"
  /\ runs = 0
  /\ memo = {}
  /\ points = << >>
  /\ year = 0
  /\ shares = 0
  /\ divPerShare = 0
  /\ priceBase = 0
  /\ priceBear = 0
  /\ priceBull = 0
  /\ cumulativeDiv = 0
  /\ initialInvestment = 0
  /\ avgGrowth = 0
  /\ initialAvgPrice = 0
  /\ incomes = << >>
  /\ sharesAt = << >>

InitApp == ComponentFresh /\ ServicesIdle /\ SessionIdle

\* some call is suspended at await fetchStockDividendData(ticker)
Awaiting == \E n \in 1..Len(pending) : pending[n].awaiting

\* a call is running: past the cache test or the fetch, before setHoldings.
\* A running call runs to its end before any other event is handled.
Running == \E n \in 1..Len(pending) : ~pending[n].awaiting

\* the call that is running
Current == CHOOSE n \in 1..Len(pending) : ~pending[n].awaiting

\* the calls in progress without the n-th
Drop(cs, n) == SubSeq(cs, 1, n - 1) \o SubSeq(cs, n + 1, Len(cs))

\* HandleSubmit on a form that stays enabled while an add is loading
HandleSubmitWhileLoading(raw, quantity, date) ==
  /\ ~Running
  /\ Len(holdings) + Len(pending) < MaxStored
  /\ LET ticker == FormTicker(raw)
     IN  pending' =
           Append(pending,
                  [typed        |-> raw,
                   ticker       |-> ticker,
                   quantity     |-> quantity,
                   purchaseDate |-> date,
                   awaiting     |-> CacheKey(ticker) \notin DOMAIN stockInfo])
  /\ isLoading' = TRUE
  /\ error' = NoError
  /\ lastRemoved' = 0
  /\ UNCHANGED <<holdings, stockInfo, engine,
                 services, session>>

\* the form is submitted (StockForm 14-21, button disabled={isLoading}) and
\* addHolding runs up to the cache test: App.tsx 73-76
HandleSubmit(raw, quantity, date) ==
  /\ ~isLoading
  /\ ~Running
  /\ Len(holdings) + Len(pending) < MaxStored
  /\ LET ticker == FormTicker(raw)
     IN  pending' =
           Append(pending,
                  [typed        |-> raw,
                   ticker       |-> ticker,
                   quantity     |-> quantity,
                   purchaseDate |-> date,
                   awaiting     |-> CacheKey(ticker) \notin DOMAIN stockInfo])
  /\ isLoading' = TRUE
  /\ error' = NoError
  /\ lastRemoved' = 0
  /\ UNCHANGED <<holdings, stockInfo, engine,
                 services, session>>

\* a fetch resolves with data: setStockInfo(prev => ({...prev,
\* [ticker]: data})), App.tsx 77-80
FetchSucceeds(d) ==
  /\ ~Running
  /\ \E n \in 1..Len(pending) :
       /\ pending[n].awaiting
       /\ LET key  == CacheKey(pending[n].ticker)
              data == DividendData(FetchedTicker(pending[n].ticker), d)
          IN  stockInfo' = [k \in DOMAIN stockInfo \cup {key} |->
                              IF k = key THEN data ELSE stockInfo[k]]
       /\ pending' = [pending EXCEPT ![n].awaiting = FALSE]
  /\ UNCHANGED <<holdings, isLoading, error, lastRemoved, engine,
                 services, session>>

\* AppendHolding putting the new holding in front
AppendHoldingInFront(i) ==
  /\ Running
  /\ holdings' = << NewHolding(i, pending[Current].ticker,
                               pending[Current].quantity,
                               pending[Current].purchaseDate) >> \o holdings
  /\ isLoading' = FALSE
  /\ pending' = Drop(pending, Current)
  /\ UNCHANGED <<stockInfo, error, lastRemoved, engine,
                 services, session>>

\* the new holding is built and appended, then finally: App.tsx 83-89, 104
AppendHolding(i) ==
  /\ Running
  /\ holdings' = Append(holdings,
                        NewHolding(i, pending[Current].ticker,
                                   pending[Current].quantity,
                                   pending[Current].purchaseDate))
  /\ isLoading' = FALSE
  /\ pending' = Drop(pending, Current)
  /\ UNCHANGED <<stockInfo, error, lastRemoved, engine,
                 services, session>>

\* FetchThrows with a catch branch that sets no error
FetchThrowsSilently ==
  /\ ~Running
  /\ \E n \in 1..Len(pending) :
       /\ pending[n].awaiting
       /\ pending' = Drop(pending, n)
  /\ isLoading' = FALSE
  /\ UNCHANGED <<holdings, stockInfo, error, lastRemoved, engine,
                 services, session>>

\* FetchThrows without the finally block
FetchThrowsNoFinally ==
  /\ ~Running
  /\ \E n \in 1..Len(pending) :
       /\ pending[n].awaiting
       /\ pending' = Drop(pending, n)
  /\ error' = FetchFailed
  /\ UNCHANGED <<holdings, stockInfo, isLoading, lastRemoved, engine,
                 services, session>>

\* a fetch rejects: the catch branch and finally, App.tsx 90-105
FetchThrows ==
  /\ ~Running
  /\ \E n \in 1..Len(pending) :
       /\ pending[n].awaiting
       /\ pending' = Drop(pending, n)
  /\ error' = FetchFailed
  /\ isLoading' = FALSE
  /\ UNCHANGED <<holdings, stockInfo, lastRemoved, engine,
                 services, session>>

\* RemoveHolding dropping every holding of the clicked holding's ticker
RemoveHoldingByTicker(i) ==
  /\ ~Running
  /\ \E k \in 1..Len(holdings) :
       /\ holdings[k].id = i
       /\ holdings' = SelectSeq(holdings,
                                LAMBDA item : item.ticker # holdings[k].ticker)
  /\ lastRemoved' = i
  /\ UNCHANGED <<stockInfo, isLoading, error, pending, engine,
                 services, session>>

\* removeHolding(id), the remove button's handler:
\* setHoldings(prev => prev.filter(item => item.id !== h.id)), App.tsx 272
RemoveHolding(i) ==
  /\ ~Running
  /\ holdings' = SelectSeq(holdings, LAMBDA item : item.id # i)
  /\ lastRemoved' = i
  /\ UNCHANGED <<stockInfo, isLoading, error, pending, engine,
                 services, session>>

NextApp ==
  \/ \E raw \in RawTickers, e \in FormEntries : HandleSubmit(raw, e[1], e[2])
  \/ \E d \in Metadata : FetchSucceeds(d)
  \/ \E i \in Ids : AppendHolding(i)
  \/ FetchThrows
  \/ \E i \in Ids : RemoveHolding(i)

SpecApp == InitApp /\ [][NextApp]_vars

\* the promise of a pending fetch settles, resolved or rejected, and a
\* continuation that can run does run
SpecAppFair ==
  /\ SpecApp
  /\ WF_vars((\E d \in Metadata : FetchSucceeds(d)) \/ FetchThrows)
  /\ WF_vars(\E i \in Ids : AppendHolding(i))

(***************************************************************************)
(* The sources list of a fetched record: fetchStockDividendData in         *)
(* src/services/geminiService.ts 74-82 and in its other copy,              *)
(* src/unnamed/part_000 53-58.                                             *)
(***************************************************************************)
MaxChunks == 3

\* chunk.web?.uri and chunk.web?.title as the response can carry them; ""
\* stands for a missing or empty field
Uris == {"", "u", "v"}
Titles == {"", "t"}

\* the groundingChunks of a response; a response without the field gives
\* the same list as one with no chunks (?.map(...) || [])
GroundingChunks ==
  UNION { [1..n -> [title : Titles, uri : Uris]] : n \in 0..MaxChunks }

\* title: chunk.web?.title || fallback, uri: chunk.web?.uri || ""
MapChunk(chunk, fallback) ==
  [title |-> IF chunk.title = "" THEN fallback ELSE chunk.title,
   uri   |-> chunk.uri]

\* groundingChunks?.map(...).filter(s => s.uri !== "") || []
Sources(cs, fallback) ==
  SelectSeq([i \in 1..Len(cs) |-> MapChunk(cs[i], fallback)],
            LAMBDA src : src.uri # "")

\* Map.prototype.set: a key already present keeps its place and takes the
\* new value, a new key goes to the end
MapSet(entries, item) ==
  IF \E k \in 1..Len(entries) : entries[k].uri = item.uri
    THEN [k \in 1..Len(entries) |->
            IF entries[k].uri = item.uri THEN item ELSE entries[k]]
    ELSE Append(entries, item)

RECURSIVE MapOf(_, _)
\* new Map(sources.map(item => [item.uri, item])), entries in map order
MapOf(srcs, entries) ==
  IF srcs = << >> THEN entries
  ELSE MapOf(Tail(srcs), MapSet(entries, Head(srcs)))

\* Array.from(new Map(...).values())
UniqueSources(srcs) == MapOf(srcs, << >>)

component == <<inputs, form, portfolioSummary, projectionData, pc, runs, memo,
               locals>>

InitSources ==
  /\ ComponentFresh
  /\ RetryIdle
  /\ SessionIdle
  /\ chunks \in GroundingChunks
  /\ sources = << >>
  /\ fetched = "no"

\* src/services/geminiService.ts: sources: uniqueSources
FetchStockDividendData ==
  /\ fetched = "no"
  /\ sources' = UniqueSources(Sources(chunks, "Market Source"))
  /\ fetched' = "services/geminiService.ts"
  /\ UNCHANGED <<chunks, component, retryVars, session>>

\* src/unnamed/part_000: sources
FetchStockDividendDataCopy ==
  /\ fetched = "no"
  /\ sources' = Sources(chunks, "Source")
  /\ fetched' = "unnamed/part_000"
  /\ UNCHANGED <<chunks, component, retryVars, session>>

NextSources ==
  \/ FetchStockDividendData
  \/ FetchStockDividendDataCopy

SpecSources == InitSources /\ [][NextSources]_vars

(***************************************************************************)
(* withRetry (src/services/geminiService.ts 6-20): fn is awaited; a        *)
(* rate-limit error with retries left waits delay ms and calls             *)
(* withRetry(fn, retries - 1, delay * 2); any other error is rethrown.     *)
(***************************************************************************)
RetriesDefault == 3
DelayDefault == 3500

\* what fn can do when awaited: resolve with a value, or throw an error with
\* one of these messages ("" is an error without a message)
Values == {"r1", "r2", "r3"}
Messages ==
  {"429 Too Many Requests", "RESOURCE_EXHAUSTED",
   "Invalid format received from AI.", ""}

\* String.prototype.includes for the messages and needles used here
Includes(msg, needle) ==
  <<msg, needle>> \in {<<"429 Too Many Requests", "429">>,
                       <<"RESOURCE_EXHAUSTED", "RESOURCE_EXHAUSTED">>}

\* IsRateLimit taking every error for a rate limit
IsRateLimitAlways(errorMsg) == TRUE

\* errorMsg.includes("429") || errorMsg.includes("RESOURCE_EXHAUSTED")
IsRateLimit(errorMsg) ==
  Includes(errorMsg, "429") \/ Includes(errorMsg, "RESOURCE_EXHAUSTED")

\* withRetry(fn) is called with the default retries and delay
InitRetry ==
  /\ ComponentFresh
  /\ FetchIdle
  /\ SessionIdle
  /\ retries = RetriesDefault
  /\ delay = DelayDefault
  /\ calls = 0
  /\ errors = << >>
  /\ waits = << >>
  /\ outcome = "calling"
  /\ result = "none"

\* return await fn(): fn resolves
FnResolves(v) ==
  /\ outcome = "calling"
  /\ calls' = calls + 1
  /\ result' = v
  /\ outcome' = "returned"
  /\ UNCHANGED <<retries, delay, errors, waits, component, fetchVars, session>>

\* fn throws: the catch block, lines 9-18
FnThrows(msg) ==
  /\ outcome = "calling"
  /\ calls' = calls + 1
  /\ errors' = Append(errors, msg)
  /\ IF IsRateLimit(msg) /\ retries > 0
       THEN outcome' = "waiting"
       ELSE outcome' = "thrown"
  /\ UNCHANGED <<retries, delay, waits, result, component, fetchVars, session>>

\* the timer of delay ms fires and withRetry(fn, retries - 1, delay * 2) is
\* entered: lines 14-15
TimerFires ==
  /\ outcome = "waiting"
  /\ waits' = Append(waits, delay)
  /\ retries' = retries - 1
  /\ delay' = delay * 2
  /\ outcome' = "calling"
  /\ UNCHANGED <<calls, errors, result, component, fetchVars, session>>

NextRetry ==
  \/ \E v \in Values : FnResolves(v)
  \/ \E msg \in Messages : FnThrows(msg)
  \/ TimerFires

SpecRetry == InitRetry /\ [][NextRetry]_vars

\* fn settles whenever it is awaited, and a timer that was set fires
SpecRetryFair == SpecRetry /\ WF_vars(NextRetry)

(***************************************************************************)
(* A browser session of the component with the analysis panel              *)
(* (src/App.tsx 319-427): the mount-time load effect and the save effect   *)
(* (360-373), addHolding (375-408), runAnalysis (410-422), removeHolding   *)
(* (424-427), and the page reload.  The effects of the component without   *)
(* the panel (src/App.tsx 60-70) are the same without the divi_analysis    *)
(* lines: its runs are the runs of this one in which no analysis is made.  *)
(* index.tsx 13-19 mounts the component inside React.StrictMode, where a   *)
(* development build runs the mount effects a second time, after the       *)
(* first run and before the queued state updates are rendered; a           *)
(* production build does not.  Both builds are modelled (strict).          *)
(* A handler's state updates are followed by the re-render and by the save *)
(* effect when one of holdings, stockInfo, analysisResult changed.         *)
(***************************************************************************)
MaxSaved == 2

\* response.text || "Could not generate analysis.": a non-empty string
Analyses == {"a1", "a2"}

\* what the user submits in a session: ticker as typed, quantity, date
SessionEntries == {<<"x", Fx(100), "2024-01-01">>, <<"y", Fx(100), "2024-06-30">>}

\* the record a fetch resolves with in a session
SessionMetadata ==
  {[currentPrice |-> Fx(10), annualDividend |-> Fx(1), growthRate |-> Fx(5)]}

AnalysisFailed == "AI analysis failed. Please verify your connection settings."

EngineFailed == "An error occurred while communicating with the financial engine."

SessionExpired ==
  "Your API session has expired or is invalid. Please re-select your key."

\* the messages of the two catch branches of addHolding: App.tsx 397-404
AddErrors == {SessionExpired, EngineFailed}

\* the first visit: nothing is stored, the component is constructed and its
\* mount effects are about to run
InitSession ==
  /\ ComponentFresh
  /\ ServicesIdle
  /\ store = NoStore
  /\ previous = NoStore
  /\ analysisResult = NoAnalysis
  /\ isAnalyzing = FALSE
  /\ queued = NoUpdates
  /\ phase = "load"
  /\ strict \in BOOLEAN
  /\ changed = FALSE

\* the load effect: App.tsx 361-367
LoadEffect ==
  /\ phase \in {"load", "reload"}
  /\ queued' =
       [holdings |-> IF store.present
                       THEN Append(queued.holdings, JSONParse(store.holdings))
                       ELSE queued.holdings,
        info     |-> IF store.present
                       THEN Append(queued.info, JSONParse(store.info))
                       ELSE queued.info,
        analysis |-> IF store.analysis # ""
                       THEN Append(queued.analysis, store.analysis)
                       ELSE queued.analysis]
  /\ phase' = IF phase = "load" THEN "save" ELSE "resave"
  /\ UNCHANGED <<store, previous, analysisResult, isAnalyzing, strict, changed,
                 inputs, form, engine, services>>

\* localStorage after the save effect of a render with these values:
\* App.tsx 370-372
Saved(hs, info, analysis) ==
  [present  |-> TRUE,
   holdings |-> JSONStringify(hs),
   info     |-> JSONStringify(info),
   analysis |-> IF analysis # NoAnalysis THEN analysis ELSE store.analysis]

Queued == queued # NoUpdates

\* previous is kept for the length of the startup
Remembered(next) == IF next = "idle" THEN NoStore ELSE previous

\* the save effect of the render whose effects are running: App.tsx 369-373
SaveEffect ==
  /\ phase \in {"save", "resave", "commit"}
  /\ store' = Saved(holdings, stockInfo, analysisResult)
  /\ phase' = CASE phase = "save" /\ strict -> "reload"
                [] Queued                   -> "render"
                [] OTHER                    -> "idle"
  /\ previous' = Remembered(phase')
  /\ UNCHANGED <<analysisResult, isAnalyzing, queued, strict, changed, inputs,
                 form, engine, services>>

Last(q) == q[Len(q)]

\* the queued updates are applied in order and the component renders again;
\* its save effect follows when a dependency changed (a parsed value is a
\* new object)
Render ==
  /\ phase = "render"
  /\ holdings' = IF queued.holdings # << >> THEN Last(queued.holdings)
                                            ELSE holdings
  /\ stockInfo' = IF queued.info # << >> THEN Last(queued.info) ELSE stockInfo
  /\ analysisResult' = IF queued.analysis # << >> THEN Last(queued.analysis)
                                                  ELSE analysisResult
  /\ queued' = NoUpdates
  /\ phase' = IF \/ queued.holdings # << >>
                 \/ queued.info # << >>
                 \/ analysisResult' # analysisResult
                THEN "commit" ELSE "idle"
  /\ previous' = Remembered(phase')
  /\ UNCHANGED <<store, isAnalyzing, strict, changed, removed, form,
                 portfolioSummary, projectionData, pc, runs, memo, locals,
                 services>>

\* addHolding of a ticker that is cached runs to its end: App.tsx 376-379,
\* 388-395, 406
AddHoldingCached(raw, quantity, date, i) ==
  /\ phase = "idle"
  /\ ~isLoading
  /\ Len(holdings) < MaxSaved
  /\ CacheKey(FormTicker(raw)) \in DOMAIN stockInfo
  /\ holdings' = Append(holdings, NewHolding(i, FormTicker(raw), quantity, date))
  /\ analysisResult' = NoAnalysis
  /\ error' = NoError
  /\ changed' = TRUE
  /\ store' = Saved(holdings', stockInfo, analysisResult')
  /\ UNCHANGED <<stockInfo, removed, isLoading, pending, lastRemoved, previous,
                 isAnalyzing, queued, phase, strict, portfolioSummary,
                 projectionData, pc, runs, memo, locals, services>>

\* addHolding of a ticker that is not cached runs up to the await of the
\* fetch: App.tsx 376-380
AddHoldingAwaits(raw, quantity, date) ==
  /\ phase = "idle"
  /\ ~isLoading
  /\ Len(holdings) < MaxSaved
  /\ CacheKey(FormTicker(raw)) \notin DOMAIN stockInfo
  /\ pending' = << [typed        |-> raw,
                    ticker       |-> FormTicker(raw),
                    quantity     |-> quantity,
                    purchaseDate |-> date,
                    awaiting     |-> TRUE] >>
  /\ isLoading' = TRUE
  /\ error' = NoError
  /\ UNCHANGED <<inputs, lastRemoved, engine, services, session>>

\* the fetch resolves with data and addHolding runs to its end:
\* App.tsx 381-382, 388-395, 406
AddHoldingResumes(d, i) ==
  /\ phase = "idle"
  /\ pending # << >>
  /\ LET call == pending[1]
         key  == CacheKey(call.ticker)
         data == DividendData(FetchedTicker(call.ticker), d)
     IN  /\ stockInfo' = [k \in DOMAIN stockInfo \cup {key} |->
                            IF k = key THEN data ELSE stockInfo[k]]
         /\ holdings' = Append(holdings,
                               NewHolding(i, call.ticker, call.quantity,
                                          call.purchaseDate))
  /\ analysisResult' = NoAnalysis
  /\ pending' = << >>
  /\ isLoading' = FALSE
  /\ changed' = TRUE
  /\ store' = Saved(holdings', stockInfo', analysisResult')
  /\ UNCHANGED <<removed, error, lastRemoved, previous, isAnalyzing, queued,
                 phase, strict, portfolioSummary, projectionData, pc, runs,
                 memo, locals, services>>

\* the fetch rejects: the catch branch and finally, App.tsx 396-407
AddHoldingThrows(msg) ==
  /\ phase = "idle"
  /\ pending # << >>
  /\ pending' = << >>
  /\ error' = msg
  /\ isLoading' = FALSE
  /\ UNCHANGED <<inputs, lastRemoved, engine, services, session>>

\* removeHolding(id) from the remove button of a listed holding:
\* App.tsx 424-427, 614
RemoveHoldingAndClear(i) ==
  /\ phase = "idle"
  /\ \E k \in 1..Len(holdings) : holdings[k].id = i
  /\ holdings' = SelectSeq(holdings, LAMBDA item : item.id # i)
  /\ analysisResult' = NoAnalysis
  /\ changed' = TRUE
  /\ store' = Saved(holdings', stockInfo, analysisResult')
  /\ UNCHANGED <<stockInfo, removed, form, previous, isAnalyzing, queued, phase,
                 strict, portfolioSummary, projectionData, pc, runs, memo,
                 locals, services>>

\* runAnalysis up to the await; the panel shows its buttons when
\* !isLoading && hasData: App.tsx 410-414, 587, part_004 18-20
RunAnalysis ==
  /\ phase = "idle"
  /\ ~isAnalyzing
  /\ holdings # << >>
  /\ isAnalyzing' = TRUE
  /\ UNCHANGED <<store, previous, analysisResult, queued, phase, strict,
                 changed, inputs, form, engine, services>>

\* analyzePortfolio resolves: setAnalysisResult(result), finally:
\* App.tsx 414-415, 419-421
AnalysisResolves(a) ==
  /\ phase = "idle"
  /\ isAnalyzing
  /\ analysisResult' = a
  /\ isAnalyzing' = FALSE
  /\ changed' = FALSE
  /\ store' = Saved(holdings, stockInfo, a)
  /\ UNCHANGED <<previous, queued, phase, strict, inputs, form, engine,
                 services>>

\* analyzePortfolio rejects: the catch branch and finally, App.tsx 416-421
AnalysisThrows ==
  /\ phase = "idle"
  /\ isAnalyzing
  /\ error' = AnalysisFailed
  /\ isAnalyzing' = FALSE
  /\ UNCHANGED <<store, previous, analysisResult, queued, phase, strict,
                 changed, inputs, isLoading, pending, lastRemoved, engine,
                 services>>

\* the page is reloaded: the component is constructed again with its
\* useState initial values, localStorage stays, and the mount effects are
\* about to run
Reload ==
  /\ phase = "idle"
  /\ holdings' = << >>
  /\ stockInfo' = [t \in {} |-> 0]
  /\ isLoading' = FALSE
  /\ error' = NoError
  /\ pending' = << >>
  /\ analysisResult' = NoAnalysis
  /\ isAnalyzing' = FALSE
  /\ previous' = store
  /\ phase' = "load"
  /\ UNCHANGED <<store, queued, strict, changed, removed, lastRemoved,
                 portfolioSummary, projectionData, pc, runs, memo, locals,
                 services>>

NextSession ==
  \/ LoadEffect
  \/ SaveEffect
  \/ Render
  \/ \E e \in SessionEntries, i \in Ids : AddHoldingCached(e[1], e[2], e[3], i)
  \/ \E e \in SessionEntries : AddHoldingAwaits(e[1], e[2], e[3])
  \/ \E d \in SessionMetadata, i \in Ids : AddHoldingResumes(d, i)
  \/ \E msg \in AddErrors : AddHoldingThrows(msg)
  \/ \E i \in Ids : RemoveHoldingAndClear(i)
  \/ RunAnalysis
  \/ \E a \in Analyses : AnalysisResolves(a)
  \/ AnalysisThrows
  \/ Reload

SpecSession == InitSession /\ [][NextSession]_vars

(***************************************************************************)
(* Vocabulary of the properties.                                           *)
(***************************************************************************)
SummaryComputed == pc \in {"seed", "loop", "done"}

Seeded == pc \in {"loop", "done"}

Indices(hs) == 1..Len(hs)

Cached(hs, m) == {i \in Indices(hs) : hs[i].ticker \in DOMAIN m}

RECURSIVE SumOver(_, _)
\* the sum of f[i] over the finite domain of f
SumOver(f, D) ==
  IF D = {} THEN 0
  ELSE LET i == CHOOSE i \in D : TRUE IN f[i] + SumOver(f, D \ {i})

QuantitySum(hs) == SumOver([i \in Indices(hs) |-> hs[i].quantity], Indices(hs))

CachedValue(hs, m) ==
  SumOver([i \in Cached(hs, m) |->
             FxMul(hs[i].quantity, m[hs[i].ticker].currentPrice)],
          Cached(hs, m))

CachedIncome(hs, m) ==
  SumOver([i \in Cached(hs, m) |->
             FxMul(hs[i].quantity, m[hs[i].ticker].annualDividend)],
          Cached(hs, m))

(***************************************************************************)
(* C1.  totalShares is the sum of the quantities of all holdings, whether  *)
(* or not the cache has an entry for a holding's ticker.                   *)
(***************************************************************************)
C1_TotalSharesIsQuantitySum ==
  SummaryComputed => portfolioSummary.totalShares = QuantitySum(holdings)

\* a summary over a cached and an uncached holding, with shares to count
C1_Witness ==
  /\ SummaryComputed
  /\ Cached(holdings, stockInfo) # {}
  /\ Cached(holdings, stockInfo) # Indices(holdings)
  /\ portfolioSummary.totalShares > 0

(***************************************************************************)
(* C2.  totalValue is the sum of quantity x currentPrice and annualIncome  *)
(* the sum of quantity x annualDividend over exactly the holdings whose    *)
(* ticker is cached; with no cached ticker, totalValue and averageYield    *)
(* are 0.                                                                  *)
(***************************************************************************)
C2_ValueAndIncomeOverCached ==
  SummaryComputed =>
    /\ portfolioSummary.totalValue = CachedValue(holdings, stockInfo)
    /\ portfolioSummary.annualIncome = CachedIncome(holdings, stockInfo)
    /\ Cached(holdings, stockInfo) = {} =>
         /\ portfolioSummary.totalValue = 0
         /\ portfolioSummary.averageYield = 0

\* a summary over a cached holding with value and income, and an uncached one
C2_Witness ==
  /\ SummaryComputed
  /\ Cached(holdings, stockInfo) # {}
  /\ Cached(holdings, stockInfo) # Indices(holdings)
  /\ portfolioSummary.totalValue > 0
  /\ portfolioSummary.annualIncome > 0
  /\ portfolioSummary.totalValue # portfolioSummary.annualIncome

(***************************************************************************)
(* C3.  averageYield and yieldOnCost are equal; both are                   *)
(* (annualIncome / totalValue) x 100 when totalValue > 0, and 0 otherwise. *)
(***************************************************************************)
C3_YieldGuarded ==
  SummaryComputed =>
    /\ portfolioSummary.averageYield = portfolioSummary.yieldOnCost
    /\ portfolioSummary.totalValue > 0 =>
         portfolioSummary.averageYield =
           FxMul(FxDiv(portfolioSummary.annualIncome,
                       portfolioSummary.totalValue), Fx(100))
    /\ portfolioSummary.totalValue <= 0 => portfolioSummary.averageYield = 0

\* a render of a portfolio with a positive value and a yield, then one of a
\* portfolio with a negative value and an income
C3_Witness ==
  /\ \E r \in memo : r.summary.totalValue > 0 /\ r.summary.averageYield > 0
  /\ SummaryComputed
  /\ portfolioSummary.totalValue < 0
  /\ portfolioSummary.annualIncome # 0

(***************************************************************************)
(* C4.  The projection terminates after 21 iterations and returns exactly  *)
(* 21 points whose years are 0, 1, ..., 20 in that order.                  *)
(***************************************************************************)
C4_TwentyOnePoints ==
  /\ pc = "loop" => year <= 21 /\ Len(points) = year
  /\ pc = "done" =>
       /\ Len(projectionData) = 21
       /\ \A i \in 1..21 : projectionData[i].year = i - 1

\* a projection has returned, for a portfolio with holdings and metadata
C4_Witness ==
  /\ pc = "done"
  /\ holdings # << >>
  /\ Cached(holdings, stockInfo) # {}
  /\ projectionData # << >>

(***************************************************************************)
(* C5.  As claimed: whenever the initial average price is non-negative,    *)
(* every emitted point has bearBalance <= balance <= bullBalance.          *)
(***************************************************************************)
C5_Original ==
  (Seeded /\ initialAvgPrice >= 0) =>
    \A i \in 1..Len(points) :
      /\ points[i].bearBalance <= points[i].balance
      /\ points[i].balance <= points[i].bullBalance

(***************************************************************************)
(* C5, amended.  Whenever the initial average price is non-negative, every *)
(* emitted point whose (unrounded) share count is non-negative has         *)
(* bearBalance <= balance <= bullBalance.                                  *)
(***************************************************************************)
C5_OrderedWhenSharesNonNegative ==
  (Seeded /\ initialAvgPrice >= 0) =>
    \A i \in 1..Len(points) :
      sharesAt[i] >= 0 =>
        /\ points[i].bearBalance <= points[i].balance
        /\ points[i].balance <= points[i].bullBalance

\* a finished projection from a positive price whose last point, at a
\* positive share count, separates the three scenarios
C5_Witness ==
  /\ pc = "done"
  /\ initialAvgPrice > 0
  /\ sharesAt[21] > 0
  /\ points[21].bearBalance < points[21].balance
  /\ points[21].balance < points[21].bullBalance

(***************************************************************************)
(* C6.  As claimed: cumulativeDividends is non-decreasing across years,    *)
(* for every summary and every cache.                                      *)
(***************************************************************************)
C6_Original ==
  Seeded =>
    \A i \in 1..(Len(points) - 1) :
      points[i].cumulativeDividends <= points[i + 1].cumulativeDividends

(***************************************************************************)
(* C6, amended.  cumulativeDividends[y] <= cumulativeDividends[y+1] for    *)
(* every year y whose (unrounded) income is non-negative; every year's     *)
(* income is non-negative when totalShares and annualIncome are            *)
(* non-negative and the average growth is at least -100%.                  *)
(***************************************************************************)
C6_NonDecreasingWhenIncomeNonNegative ==
  Seeded =>
    /\ \A i \in 1..(Len(points) - 1) :
         incomes[i] >= 0 =>
           points[i].cumulativeDividends <= points[i + 1].cumulativeDividends
    /\ ( /\ portfolioSummary.totalShares >= 0
         /\ portfolioSummary.annualIncome >= 0
         /\ avgGrowth >= -SCALE )
       => \A i \in 1..Len(incomes) : incomes[i] >= 0

\* a finished projection under a negative average growth rate whose
\* incomes are all non-negative and whose cumulative dividends grow
C6_Witness ==
  /\ pc = "done"
  /\ avgGrowth < 0
  /\ \A i \in 1..Len(incomes) : incomes[i] >= 0
  /\ points[1].cumulativeDividends < points[2].cumulativeDividends
  /\ points[2].cumulativeDividends < points[21].cumulativeDividends

(***************************************************************************)
(* C7.  The projection is deterministic and keeps no hidden state: any two *)
(* runs on the same summary and the same cache return the same points,     *)
(* whatever was computed or changed in between.                            *)
(***************************************************************************)
C7_SameInputsSamePoints ==
  \A r1, r2 \in memo :
    (r1.summary = r2.summary /\ r1.cache = r2.cache) => r1.data = r2.data

\* three runs: on a portfolio, on the portfolio with a holding removed, and
\* on the portfolio with the holding entered again, the last one returning
\* what the first one did
C7_Witness ==
  /\ pc = "done"
  /\ runs = 3
  /\ removed = << >>
  /\ Cardinality(memo) = 2
  /\ \E r \in memo : r.data[21].cumulativeDividends # 0

(***************************************************************************)
(* C8.  Reference scenario: one holding of X, quantity 100, metadata       *)
(* price 10, dividend 1, growth 5.  Summary: value 1000, income 100,       *)
(* yield 10.  Point 0: income 100, balance 1000, yoc 10.  Point 1: shares  *)
(* 110, income 116 (115.5 rounded), balance 1155.                          *)
(***************************************************************************)
ReferenceScenario ==
  /\ Len(holdings) = 1
  /\ holdings[1].ticker = "X"
  /\ holdings[1].quantity = Fx(100)
  /\ DOMAIN stockInfo = {"X"}
  /\ stockInfo["X"].currentPrice = Fx(10)
  /\ stockInfo["X"].annualDividend = Fx(1)
  /\ stockInfo["X"].growthRate = Fx(5)

C8_ReferenceScenario ==
  (ReferenceScenario /\ pc = "done") =>
    /\ portfolioSummary.totalValue = Fx(1000)
    /\ portfolioSummary.annualIncome = Fx(100)
    /\ portfolioSummary.averageYield = Fx(10)
    /\ projectionData[1].annualIncome = 100
    /\ projectionData[1].balance = 1000
    /\ projectionData[1].yoc = Fx(10)
    /\ projectionData[2].shares = Fx(110)
    /\ incomes[2] = Fx(115) + SCALE \div 2
    /\ projectionData[2].annualIncome = 116
    /\ projectionData[2].balance = 1155

\* the projection of the reference scenario has returned
C8_Witness ==
  /\ ReferenceScenario
  /\ pc = "done"
  /\ Len(projectionData) = 21

(***************************************************************************)
(* C9.  Empty portfolio: whatever the cache contains, the summary is all   *)
(* zeros and each of the 21 points has balance, bearBalance, bullBalance,  *)
(* annualIncome, cumulativeDividends, shares and yoc equal to 0.           *)
(***************************************************************************)
C9_EmptyPortfolioAllZero ==
  (holdings = << >> /\ pc = "done") =>
    /\ portfolioSummary.totalValue = 0
    /\ portfolioSummary.annualIncome = 0
    /\ portfolioSummary.averageYield = 0
    /\ portfolioSummary.yieldOnCost = 0
    /\ portfolioSummary.totalShares = 0
    /\ Len(projectionData) = 21
    /\ \A i \in 1..Len(projectionData) :
         /\ projectionData[i].balance = 0
         /\ projectionData[i].bearBalance = 0
         /\ projectionData[i].bullBalance = 0
         /\ projectionData[i].annualIncome = 0
         /\ projectionData[i].cumulativeDividends = 0
         /\ projectionData[i].shares = 0
         /\ projectionData[i].yoc = 0

\* the projection of an empty portfolio over a non-empty cache has returned
C9_Witness ==
  /\ holdings = << >>
  /\ pc = "done"
  /\ DOMAIN stockInfo # {}
  /\ Len(projectionData) = 21

(***************************************************************************)
(* C10.  The denominator of yoc, initialInvestment, is totalValue when     *)
(* totalValue > 0 and 1 for every other totalValue, zero or negative, so   *)
(* yoc never divides by zero or by a negative number.                      *)
(***************************************************************************)
C10_InitialInvestmentFloor ==
  Seeded =>
    /\ initialInvestment =
         IF portfolioSummary.totalValue > 0
           THEN portfolioSummary.totalValue ELSE Fx(1)
    /\ initialInvestment > 0

(***************************************************************************)
(* C11.  As claimed: initialAvgPrice = totalValue / max(totalShares, 1)    *)
(* and initialDivPerShare = annualIncome / max(totalShares, 1) for every   *)
(* totalShares >= 0, fractional totals between 0 and 1 included.           *)
(***************************************************************************)
MaxOne(x) == IF x > Fx(1) THEN x ELSE Fx(1)

JustSeeded == pc = "loop" /\ year = 0

SharesOrOne(x) == IF x > 0 THEN x ELSE Fx(1)

CachedTickers == DOMAIN stockInfo

MeanGrowthRate ==
  FxDiv(SumOver([t \in CachedTickers |-> stockInfo[t].growthRate],
                CachedTickers),
        Fx(Cardinality(CachedTickers)))

Percent(n) == (n * SCALE) \div 100

YearPasses == pc = "loop" /\ year' = year + 1

C13_Recurrence ==
  [][YearPasses =>
       LET income == FxMul(shares, divPerShare)
           point  == points'[Len(points')]
       IN  /\ shares' = IF priceBase > 0
                          THEN shares + FxDiv(income, priceBase)
                          ELSE shares
           /\ point.balance     = MathRound(FxMul(shares, priceBase))
           /\ point.bearBalance = MathRound(FxMul(shares, priceBear))
           /\ point.bullBalance = MathRound(FxMul(shares, priceBull))
           /\ divPerShare' = FxMul(divPerShare, SCALE + avgGrowth)
           /\ priceBase' = FxMul(priceBase, Percent(105))
           /\ priceBear' = FxMul(priceBear, Percent(101))
           /\ priceBull' = FxMul(priceBull, Percent(109))]_vars

\* a completed run whose share count grew in its first year, followed by a
\* completed run at price 0 whose income is positive and whose share count
\* never moved
C13_Witness ==
  /\ pc = "done"
  /\ initialAvgPrice = 0
  /\ incomes[1] > 0
  /\ sharesAt[MaxYear + 1] = sharesAt[1]
  /\ \E r \in memo : /\ r.summary.totalValue > 0
                     /\ r.data[1].shares > 0
                     /\ r.data[2].shares > r.data[1].shares
                     /\ r.data[2].bullBalance > r.data[2].balance
                     /\ r.data[2].balance > r.data[2].bearBalance

(***************************************************************************)
(* C14.  The point of year y is emitted before that year's updates:        *)
(* annualIncome[y] is the rounded product of the start-of-year share count *)
(* and the per-share dividend of year y, and cumulativeDividends[y] is the *)
(* rounded sum of the incomes of years 0..y-1 only, so it is 0 at year 0   *)
(* and year y's income first shows at year y+1.                            *)
(***************************************************************************)
RECURSIVE Compound(_, _, _)
\* v multiplied n times by the factor f, one multiplication per year
Compound(v, f, n) == IF n = 0 THEN v ELSE FxMul(Compound(v, f, n - 1), f)

SeedDivisor ==
  IF portfolioSummary.totalShares = 0 THEN Fx(1)
  ELSE portfolioSummary.totalShares

\* the per-share dividend at the start of year y
DivPerShareAt(y) ==
  Compound(FxDiv(portfolioSummary.annualIncome, SeedDivisor),
           SCALE + avgGrowth, y)

\* the base price at the start of year y
PriceBaseAt(y) == Compound(initialAvgPrice, Percent(105), y)

\* the unrounded incomes of the years before y, added up
IncomeBefore(y) == SumOver([j \in 1..y |-> incomes[j]], 1..y)

\* the share count at the start of year y, for the years emitted so far
StartOfYearShares(y) ==
  IF y = 0 THEN portfolioSummary.totalShares
  ELSE sharesAt[y] + (IF PriceBaseAt(y - 1) > 0
                        THEN FxDiv(incomes[y], PriceBaseAt(y - 1))
                        ELSE 0)

C14_EmittedBeforeUpdates ==
  pc = "done" =>
    /\ projectionData = points
    /\ Len(incomes) = Len(points)
    /\ Len(sharesAt) = Len(points)
    /\ \A i \in 1..Len(points) :
         /\ points[i].year = i - 1
         /\ sharesAt[i] = StartOfYearShares(i - 1)
         /\ incomes[i] = FxMul(sharesAt[i], DivPerShareAt(i - 1))
         /\ points[i].annualIncome = MathRound(incomes[i])
         /\ points[i].cumulativeDividends = MathRound(IncomeBefore(i - 1))
    /\ (Len(points) > 0 => points[1].cumulativeDividends = 0)

\* a completed run with income from year 0 on: the first point shows the
\* income of year 0 and no total yet, the second point's total is exactly
\* the income of year 0
C14_Witness ==
  /\ pc = "done"
  /\ points[1].annualIncome > 0
  /\ points[1].cumulativeDividends = 0
  /\ points[2].cumulativeDividends = points[1].annualIncome
  /\ points[2].annualIncome > points[1].annualIncome
  /\ points[3].cumulativeDividends > points[2].cumulativeDividends

(***************************************************************************)
(* C15.  Rounding never feeds back: a point's balances, annualIncome and   *)
(* cumulativeDividends are rounded to the nearest integer and its shares   *)
(* to 2 decimals, its yoc is not rounded, and the shares, divPerShare,     *)
(* prices and cumulative total that the next year starts from are the      *)
(* unrounded ones.                                                         *)
(***************************************************************************)
PriceBearAt(y) == Compound(initialAvgPrice, Percent(101), y)
PriceBullAt(y) == Compound(initialAvgPrice, Percent(109), y)

C15_RoundingOnlyInPoints ==
  pc = "done" =>
    /\ \A i \in 1..Len(points) :
         /\ points[i].shares = ToFixed2(sharesAt[i])
         /\ points[i].balance = MathRound(FxMul(sharesAt[i], PriceBaseAt(i - 1)))
         /\ points[i].bearBalance =
              MathRound(FxMul(sharesAt[i], PriceBearAt(i - 1)))
         /\ points[i].bullBalance =
              MathRound(FxMul(sharesAt[i], PriceBullAt(i - 1)))
         /\ points[i].yoc =
              FxMul(FxDiv(incomes[i], initialInvestment), Fx(100))
    /\ shares = StartOfYearShares(Len(points))
    /\ divPerShare = DivPerShareAt(Len(points))
    /\ priceBase = PriceBaseAt(Len(points))
    /\ priceBear = PriceBearAt(Len(points))
    /\ priceBull = PriceBullAt(Len(points))
    /\ cumulativeDiv = IncomeBefore(Len(points))

\* a completed run with a year whose emitted shares and income both differ
\* from the running values, and whose next year starts from the running ones
C15_Witness ==
  /\ pc = "done"
  /\ \E i \in 1..MaxYear :
       /\ PriceBaseAt(i - 1) > 0
       /\ points[i].shares # sharesAt[i]
       /\ Fx(points[i].annualIncome) # incomes[i]
       /\ sharesAt[i + 1] = sharesAt[i] + FxDiv(incomes[i], PriceBaseAt(i - 1))
       /\ sharesAt[i + 1] #
            points[i].shares
              + FxDiv(Fx(points[i].annualIncome), PriceBaseAt(i - 1))
       /\ Fx(points[i + 1].cumulativeDividends) # IncomeBefore(i)

(***************************************************************************)
(* C16.  As claimed: in every state reachable by addHolding and            *)
(* removeHolding calls no two stored holdings have the same id.            *)
(***************************************************************************)
C16_UniqueIds ==
  \A i \in Indices(holdings), j \in Indices(holdings) :
    i # j => holdings[i].id # holdings[j].id

(***************************************************************************)
(* C17.  As claimed: every addHolding call appends exactly one holding,    *)
(* with the call's quantity and date and the upper-cased ticker, at the    *)
(* end of the list, and leaves the stored holdings as they were, whatever  *)
(* the metadata fetch does.                                                *)
(***************************************************************************)
\* the addHolding call in progress returns in this step
CallSettles == pending # << >> /\ pending' = << >>

\* this step puts exactly one holding, built from the call, after the others
AppendsOne ==
  /\ Len(holdings') = Len(holdings) + 1
  /\ SubSeq(holdings', 1, Len(holdings)) = holdings
  /\ LET h == holdings'[Len(holdings')]
     IN  /\ h.ticker = ToUpperCase(pending[1].typed)
         /\ h.quantity = pending[1].quantity
         /\ h.purchaseDate = pending[1].purchaseDate

C17_Original == [][CallSettles => AppendsOne]_vars

(***************************************************************************)
(* C17, amended.  An addHolding call whose ticker is already cached, or    *)
(* whose metadata fetch resolves with data, appends exactly one holding,   *)
(* with the call's quantity and date and the upper-cased ticker, at the    *)
(* end of the list and leaves the stored holdings as they were; a call     *)
(* whose metadata fetch throws appends nothing, leaves the list as it was  *)
(* and sets the error.                                                     *)
(***************************************************************************)
C17_AppendsUnlessFetchThrows ==
  [][CallSettles =>
       IF pending[1].awaiting
         THEN holdings' = holdings /\ error' # NoError
         ELSE AppendsOne /\ error' = error]_vars

\* a call has failed on its fetch after two calls appended their holdings,
\* one after a fetch and one on a ticker already cached
C17_Witness ==
  /\ pending = << >>
  /\ error = FetchFailed
  /\ Len(holdings) = 2
  /\ holdings[1].ticker = holdings[2].ticker
  /\ holdings[1].quantity # holdings[2].quantity
  /\ holdings[1].purchaseDate # holdings[2].purchaseDate
  /\ DOMAIN stockInfo = {holdings[1].ticker}

(***************************************************************************)
(* C18.  removeHolding(id) removes the holding whose id is id and keeps    *)
(* every other holding, unmodified and in its original relative order; if  *)
(* no holding has that id the list is unchanged.  Nothing else takes a     *)
(* holding out of the list.                                                *)
(***************************************************************************)
HoldsId(hs, i) == \E k \in Indices(hs) : hs[k].id = i

\* hs without the holdings whose id is i, built position by position
RECURSIVE Without(_, _)
Without(hs, i) ==
  IF hs = << >> THEN << >>
  ELSE IF Head(hs).id = i THEN Without(Tail(hs), i)
       ELSE << Head(hs) >> \o Without(Tail(hs), i)

C18_RemoveKeepsTheOthers ==
  [][/\ (lastRemoved' # lastRemoved /\ lastRemoved' # 0) =>
          /\ holdings' = Without(holdings, lastRemoved')
          /\ (~HoldsId(holdings, lastRemoved') => holdings' = holdings)
     /\ Len(holdings') < Len(holdings) =>
          /\ lastRemoved' # 0
          /\ holdings' = Without(holdings, lastRemoved')]_vars

\* a holding of ticker Y was fetched and stored and has been removed by its
\* id, which no remaining holding carries; the holdings of ticker X that
\* were stored around it remain
C18_Witness ==
  /\ pending = << >>
  /\ lastRemoved # 0
  /\ ~HoldsId(holdings, lastRemoved)
  /\ DOMAIN stockInfo = {"X", "Y"}
  /\ Len(holdings) >= 2
  /\ \A k \in Indices(holdings) : holdings[k].ticker = "X"
  /\ holdings[1] # holdings[2]

(***************************************************************************)
(* C19.  After an addHolding that completes with a successful fetch,       *)
(* whatever the casing of the ticker typed, the cache entry is stored      *)
(* under the upper-case ticker, the same key as the ticker stored in the   *)
(* new holding, so the aggregator's lookup by holding.ticker finds it.     *)
(***************************************************************************)
C19_CacheKeyIsHoldingTicker ==
  [][(CallSettles /\ ~pending[1].awaiting) =>
       LET h   == holdings'[Len(holdings')]
           key == ToUpperCase(pending[1].typed)
       IN  /\ key \in DOMAIN stockInfo'
           /\ h.ticker = key
           /\ ComputeSummary(<< h >>, stockInfo').totalValue =
                FxMul(h.quantity, stockInfo'[key].currentPrice)
           /\ ComputeSummary(<< h >>, stockInfo').annualIncome =
                FxMul(h.quantity, stockInfo'[key].annualDividend)]_vars

\* a ticker typed in lower case ("y", the one spelling of it the form is
\* given) has been fetched and its holding stored: the entry is under the
\* upper-case key and values the holding
C19_Witness ==
  /\ pending = << >>
  /\ error = NoError
  /\ Len(holdings) = 1
  /\ holdings[1].ticker = "Y"
  /\ DOMAIN stockInfo = {"Y"}
  /\ ComputeSummary(holdings, stockInfo).totalValue # 0

(***************************************************************************)
(* C20.  In every reachable state the metadata cache has at most one entry *)
(* per ticker: no two entries carry the same ticker in their ticker field. *)
(***************************************************************************)
C20_OneEntryPerTicker ==
  \A k \in DOMAIN stockInfo, l \in DOMAIN stockInfo :
    stockInfo[k].ticker = stockInfo[l].ticker => k = l

\* the cache holds an entry for each of two tickers
C20_Witness ==
  /\ Cardinality(DOMAIN stockInfo) = 2
  /\ \E k \in DOMAIN stockInfo : stockInfo[k].ticker = "X"
  /\ \E k \in DOMAIN stockInfo : stockInfo[k].ticker = "Y"
  /\ pending = << >>

(***************************************************************************)
(* C30.  removeHolding leaves the metadata cache unchanged: no removal or  *)
(* re-add deletes or alters a cache entry, so after the last holding of a  *)
(* ticker is removed its entry remains and its growthRate still counts in  *)
(* the projection's avgGrowth; emptying the holding list does not bring    *)
(* the 0.07 default back.                                                  *)
(***************************************************************************)
C30_RemoveKeepsCache ==
  [][/\ \A t \in DOMAIN stockInfo :
          t \in DOMAIN stockInfo' /\ stockInfo'[t] = stockInfo[t]
     /\ (pc = "seed" /\ pc' = "loop" /\ DOMAIN stockInfo # {}) =>
          avgGrowth' = FxDiv(MeanGrowthRate, Fx(100))]_vars

\* every holding has been removed, the cache still has its entries, and the
\* projection that ran on the empty list used their growth rates, not 0.07
C30_Witness ==
  /\ pc = "done"
  /\ holdings = << >>
  /\ removed # << >>
  /\ \A k \in Indices(removed) : removed[k].ticker \in DOMAIN stockInfo
  /\ avgGrowth = FxDiv(MeanGrowthRate, Fx(100))
  /\ avgGrowth # (7 * SCALE) \div 100

(***************************************************************************)
(* C21.  A metadata fetch is issued, and a cache entry written, only for a *)
(* ticker that has no cache entry; once a ticker is cached no later        *)
(* addHolding for it, overlapping an earlier pending add or not, replaces  *)
(* or alters the entry.                                                    *)
(***************************************************************************)
C21_FetchOnlyWhenUncached ==
  [][/\ \A k \in DOMAIN stockInfo :
          k \in DOMAIN stockInfo' /\ stockInfo'[k] = stockInfo[k]
     /\ \A n \in 1..Len(pending') :
          pending'[n].awaiting => pending'[n].ticker \notin DOMAIN stockInfo'
     /\ stockInfo' # stockInfo =>
          \E n \in 1..Len(pending) :
            /\ pending[n].awaiting
            /\ DOMAIN stockInfo' = DOMAIN stockInfo \cup {pending[n].ticker}]_vars

\* an add for a ticker that a stored holding already brought into the cache
\* is running without having fetched: the cache has that one entry, written
\* by the first add
C21_Witness ==
  /\ Len(pending) = 1
  /\ ~pending[1].awaiting
  /\ \E k \in Indices(holdings) : holdings[k].ticker = pending[1].ticker
  /\ DOMAIN stockInfo = {pending[1].ticker}

(***************************************************************************)
(* C28.  isLoading is true from the start of an addHolding call until the  *)
(* call ends, every call ends with isLoading false whether its fetch       *)
(* resolves or throws, and since the form cannot submit while isLoading is *)
(* true, at most one addHolding is in flight.                              *)
(***************************************************************************)
C28_LoadingProtocol ==
  /\ [](isLoading <=> pending # << >>)
  /\ [](Len(pending) <= 1)
  /\ (isLoading ~> ~isLoading)

\* a second add is suspended at its fetch, with isLoading true, after a
\* first add has ended and left its holding
C28_Witness ==
  /\ isLoading
  /\ Len(pending) = 1
  /\ pending[1].awaiting
  /\ Len(holdings) = 1
  /\ holdings[1].ticker # pending[1].ticker

(***************************************************************************)
(* C23.  When the metadata fetch of an add throws, a non-null error is     *)
(* set, the cache gets no entry for that ticker, the aggregator and the    *)
(* projection's seeding still have a result for the resulting state, and   *)
(* the form is enabled again so that a later add can succeed.              *)
(***************************************************************************)
\* the call in progress ends in this step while suspended at its fetch
FetchFails == CallSettles /\ pending[1].awaiting

C23_FetchFailureIsRecoverable ==
  [][FetchFails =>
       LET summary == ComputeSummary(holdings', stockInfo')
       IN  /\ error' # NoError
           /\ stockInfo' = stockInfo
           /\ pending[1].ticker \notin DOMAIN stockInfo'
           /\ holdings' = holdings
           /\ summary.totalShares = QuantitySum(holdings')
           /\ summary.totalValue = CachedValue(holdings', stockInfo')
           /\ InitialInvestment(summary.totalValue) # 0
           /\ OrOne(summary.totalShares) # 0
           /\ ~isLoading'
           /\ pending' = << >>]_vars

\* an add of ticker Y has failed on its fetch: the error is shown, Y is not
\* in the cache, the holding of X stored before is still there, and the
\* form is free for the next add
C23_Witness ==
  /\ error # NoError
  /\ ~isLoading
  /\ pending = << >>
  /\ DOMAIN stockInfo = {"X"}
  /\ Len(holdings) = 1
  /\ holdings[1].ticker = "X"
  /\ ComputeSummary(holdings, stockInfo).totalShares = holdings[1].quantity

(***************************************************************************)
(* C25.  As claimed: every stored holding has quantity > 0; no sequence of *)
(* form submissions can store a zero, negative or non-numeric quantity.    *)
(***************************************************************************)
C25_PositiveQuantities ==
  \A k \in Indices(holdings) : holdings[k].quantity > 0

(***************************************************************************)
(* C24.  As claimed: every record produced by a successful fetch has a     *)
(* sources list in which no two elements share a uri and no element has an *)
(* empty uri, with the uris in the order of their first occurrence in the  *)
(* grounding chunks.                                                       *)
(***************************************************************************)
RECURSIVE FirstOccurrences(_, _)
\* the non-empty uris of the chunks cs, each once, in order of first
\* occurrence; seen are the uris already listed
FirstOccurrences(cs, seen) ==
  IF cs = << >> THEN << >>
  ELSE IF Head(cs).uri = "" \/ Head(cs).uri \in seen
         THEN FirstOccurrences(Tail(cs), seen)
         ELSE << Head(cs).uri >>
                \o FirstOccurrences(Tail(cs), seen \cup {Head(cs).uri})

UrisOf(srcs) == [k \in 1..Len(srcs) |-> srcs[k].uri]

SourcesDeduplicated ==
  /\ \A k \in 1..Len(sources), l \in 1..Len(sources) :
       sources[k].uri = sources[l].uri => k = l
  /\ \A k \in 1..Len(sources) : sources[k].uri # ""
  /\ UrisOf(sources) = FirstOccurrences(chunks, {})

C24_SourcesDeduplicated == fetched # "no" => SourcesDeduplicated

(***************************************************************************)
(* C26.  withRetry(fn) with retries = 3 and delay = 3500: fn is invoked at *)
(* most 4 times; a retry follows only an error whose message contains      *)
(* "429" or "RESOURCE_EXHAUSTED", after waits of 3500, 7000 and 14000 ms;  *)
(* any other error, and a rate-limit error with no retries left, is        *)
(* rethrown without a further call; the first result is returned and fn is *)
(* not called again; the chain ends if every call of fn does.              *)
(***************************************************************************)
RateLimited(msg) == msg \in {"429 Too Many Requests", "RESOURCE_EXHAUSTED"}

Backoff == <<3500, 7000, 14000>>

Ended == outcome \in {"returned", "thrown"}

C26_WithRetry ==
  /\ [](/\ calls <= 4
        /\ Len(waits) <= Len(Backoff)
        /\ waits = SubSeq(Backoff, 1, Len(waits))
        /\ \A k \in 1..Len(waits) : RateLimited(errors[k])
        /\ outcome = "thrown" =>
             /\ calls = Len(errors)
             /\ \/ ~RateLimited(errors[Len(errors)])
                \/ calls = 4
        /\ outcome = "returned" =>
             /\ result \in Values
             /\ calls = Len(errors) + 1
             /\ \A k \in 1..Len(errors) : RateLimited(errors[k]))
  /\ [][/\ (calls' = calls + 1 /\ calls > 0) =>
             /\ RateLimited(errors[calls])
             /\ Len(waits) = calls
        /\ Ended => (calls' = calls /\ result' = result /\ outcome' = outcome)
       ]_vars
  /\ <>Ended

\* three rate-limit errors were retried after the three waits, the fourth
\* was rethrown
C26_Witness ==
  /\ outcome = "thrown"
  /\ calls = 4
  /\ waits = Backoff
  /\ RateLimited(errors[4])

(***************************************************************************)
(* C22.  Persistence round trip: a startup (the load effect, the save      *)
(* effect, StrictMode's second invocation of both) that finds holdings and *)
(* a cache persisted by a previous session ends with the in-memory         *)
(* holdings and cache equal to the persisted values and with the store     *)
(* still containing them, and at no point of the startup does the store    *)
(* hold anything else for the two keys.                                    *)
(***************************************************************************)
StartingUp == phase # "idle"

StorePreserved ==
  /\ store.present
  /\ store.holdings = previous.holdings
  /\ store.info = previous.info

C22_PersistenceRoundTrip ==
  /\ [](StartingUp /\ previous.present => StorePreserved)
  /\ [][(StartingUp /\ phase' = "idle" /\ previous.present) =>
          /\ holdings' = JSONParse(previous.holdings)
          /\ stockInfo' = JSONParse(previous.info)
          /\ StorePreserved']_vars

(***************************************************************************)
(* C27.  The analysis result is cleared whenever the portfolio changes:    *)
(* after an addHolding that adds a holding or caches metadata and after a  *)
(* removeHolding, analysisResult is null; and once cleared, no analysis is *)
(* shown after a reload unless runAnalysis succeeded after the change.     *)
(***************************************************************************)
PortfolioChanges ==
  /\ phase = "idle"
  /\ phase' = "idle"
  /\ holdings' # holdings \/ stockInfo' # stockInfo

C27_AnalysisClearedOnChange ==
  /\ [][PortfolioChanges => analysisResult' = NoAnalysis]_vars
  /\ [](changed => analysisResult = NoAnalysis)

(***************************************************************************)
(* C29.  Year-0 consistency with the summary: whenever totalShares > 0,    *)
(* point 0 of the projection has balance = bearBalance = bullBalance =     *)
(* round(totalValue), annualIncome = round(summary annualIncome),          *)
(* cumulativeDividends = 0, shares = totalShares rounded to 2 decimals     *)
(* and, when totalValue > 0, yoc equal to the summary's averageYield.      *)
(***************************************************************************)
C29_YearZeroMatchesSummary ==
  (pc = "done" /\ portfolioSummary.totalShares > 0) =>
    LET p == projectionData[1]
        s == portfolioSummary
    IN  /\ p.year = 0
        /\ p.balance = MathRound(s.totalValue)
        /\ p.bearBalance = MathRound(s.totalValue)
        /\ p.bullBalance = MathRound(s.totalValue)
        /\ p.annualIncome = MathRound(s.annualIncome)
        /\ p.cumulativeDividends = 0
        /\ p.shares = ToFixed2(s.totalShares)
        /\ s.totalValue > 0 => p.yoc = s.averageYield

=============================================================================
